---- MODULE Spec2Model ----
(***************************************************************************)
(* kubectl-tree: the relationship resolver (pkg/k8s/resources.go), the     *)
(* tree builder and the renderer (pkg/tree/printer.go), driven by main.    *)
(*                                                                         *)
(* Strings are TLA+ strings.  TLA+ strings are ASCII, so the three         *)
(* box-drawing glyphs and the escape byte of the ANSI sequences are        *)
(* written with ASCII stand-ins of the same length in characters:          *)
(*    U+2514 U+2500 U+2500 SPACE   is written  "'-- "                      *)
(*    U+251C U+2500 U+2500 SPACE   is written  "+-- "                      *)
(*    U+2502 SPACE SPACE SPACE     is written  "|   "                      *)
(*    ESC (0x1b)                   is written  "^"                         *)
(* No resource name of the model contains one of the stand-ins.            *)
(***************************************************************************)
EXTENDS Integers, Sequences, FiniteSets, TLC

VARIABLES
    cluster,      \* what the API server holds for the namespace (one list per kind)
    resources,    \* Builder.resources: the snapshot GetResources returned
    listCalls,    \* the List calls GetResources has made, in order
    root,         \* the tree under construction / returned by BuildTree
    found,        \* the shared found map of BuildTree (set of keys that are true)
    pc,           \* position of main / BuildTree
    idx,          \* loop index i of the BuildTree loop pc names
    err,          \* the error BuildTree returned ("" is nil)
    stdout,       \* the lines written to standard output by this run
    exitCode,     \* process exit code (-1 while running)
    useColor,     \* the argument of NewPrinter
    run,          \* number of the current run of the program over the cluster
    prevOut,      \* standard output of the previous run (<<>> in the first run)
    lookup,       \* the last call of a Get...ByOwner method by a client of Resources
    sortLog       \* the tree a client handed to SortChildren, then the tree after each call

vars == <<cluster, resources, listCalls, root, found, pc, idx, err, stdout,
          exitCode, useColor, run, prevOut, lookup, sortLog>>

(***************************************************************************)
(* Bounds                                                                  *)
(***************************************************************************)
\* largest number of resources (of all kinds together) in the namespace
MaxItems == 3
\* number of times the program is run over the same cluster content
MaxRuns == 2

(***************************************************************************)
(* Go strings                                                              *)
(***************************************************************************)
\* the bytes that occur in kinds and names, in ascending byte order
Alphabet == " -/0123456789ABCDEFGHIJKLMNOPQRSTUVWXYZabcdefghijklmnopqrstuvwxyz"

Ord(c) == CHOOSE i \in 1..Len(Alphabet) : SubSeq(Alphabet, i, i) = c

\* a < b on Go strings: byte-wise lexicographic, a proper prefix is smaller
RECURSIVE StrLess(_, _)
StrLess(a, b) ==
    IF b = "" THEN FALSE
    ELSE IF a = "" THEN TRUE
    ELSE IF Head(a) = Head(b) THEN StrLess(Tail(a), Tail(b))
    ELSE Ord(Head(a)) < Ord(Head(b))

\* strings.Contains(s, substr)
Contains(s, substr) ==
    \E i \in 1..(Len(s) - Len(substr) + 1) :
        SubSeq(s, i, i + Len(substr) - 1) = substr

\* m[key] on a map[string]string: the zero value "" when the key is absent
MapGet(m, key) == IF key \in DOMAIN m THEN m[key] ELSE ""

\* a nil pointer to a volume source / env source
NilRef == "<nil>"

(***************************************************************************)
(* The API objects, reduced to the fields the program reads                *)
(***************************************************************************)
\* metav1.OwnerReference
Ref(kind, name) == [Kind |-> kind, Name |-> name]

\* Service.Spec.Selector: a nil map or a map (possibly with zero pairs)
NilSelector == [IsNil |-> TRUE, Map |-> << >>]
Selector(m) == [IsNil |-> FALSE, Map |-> m]

\* corev1.Service
Svc(name, selector) == [Name |-> name, Selector |-> selector]

\* corev1.ConfigMap, corev1.Secret, corev1.PersistentVolumeClaim
Named(name) == [Name |-> name]

\* corev1.Volume: each source is NilRef or the name it refers to
\* (ConfigMap.Name, Secret.SecretName, PersistentVolumeClaim.ClaimName)
Vol(cm, secret, pvc) == [ConfigMap |-> cm, Secret |-> secret, PersistentVolumeClaim |-> pvc]

\* corev1.EnvFromSource and corev1.EnvVar (ValueFrom.SecretKeyRef)
EnvFrom(cmRef, secretRef) == [ConfigMapRef |-> cmRef, SecretRef |-> secretRef]
EnvVar(secretKeyRef) == [SecretKeyRef |-> secretKeyRef]

\* corev1.Container of a pod template
Ctr(name, envFrom, env) == [Name |-> name, EnvFrom |-> envFrom, Env |-> env]

\* Deployment, StatefulSet, DaemonSet, Job, CronJob: metadata, the pod spec of
\* the (job) template, the labels of the pod template and, for a StatefulSet,
\* the names of Spec.VolumeClaimTemplates
Workload(name, labels, owners, tplLabels, volumes, containers, vcts) ==
    [Name |-> name, Labels |-> labels, OwnerReferences |-> owners,
     TemplateLabels |-> tplLabels,
     PodSpec |-> [Volumes |-> volumes, Containers |-> containers],
     VolumeClaimTemplates |-> vcts]

\* appsv1.ReplicaSet
ReplicaSet(name, owners) == [Name |-> name, OwnerReferences |-> owners]

\* corev1.Pod: Spec.Containers reduced to the container names
Pod(name, owners, containers) ==
    [Name |-> name, OwnerReferences |-> owners, Containers |-> containers]

\* k8s.Resources
Kinds == <<"Services", "ConfigMaps", "Secrets", "PVCs", "Pods", "Deployments",
           "StatefulSets", "DaemonSets", "ReplicaSets", "Jobs", "CronJobs">>

NilResources == [k \in {Kinds[i] : i \in 1..Len(Kinds)} |-> << >>]

(***************************************************************************)
(* The namespaces the model runs the program on: every namespace holds at  *)
(* most MaxItems of the following resources, each list in any order.       *)
(***************************************************************************)
Namespace == "demo"

ServicePool == <<
    Svc("web", Selector("app" :> "web")),
    Svc("api", Selector(("app" :> "web") @@ ("tier" :> "fe"))),
    Svc("db-headless", NilSelector),
    Svc("db", Selector(<< >>)),
    Svc("blank", Selector("zone" :> "")) >>

ConfigMapPool == << Named("cfg") >>

SecretPool == << Named("sec") >>

PVCPool == << Named("data-db-0"), Named("data-db-1"), Named("q"), Named("web-mq") >>

PodPool == <<
    Pod("web-1-a", << Ref("ReplicaSet", "web-1") >>, << "app", "sidecar" >>),
    Pod("db-0", << Ref("StatefulSet", "db") >>, << "db" >>),
    Pod("agent-x", << Ref("ReplicaSet", "web"), Ref("DaemonSet", "agent") >>, << >>),
    Pod("run", << Ref("Job", "mig"), Ref("Job", "tick-1"), Ref("Job", "odd") >>, << "main" >>) >>

DeploymentPool == <<
    Workload("web", "app" :> "web", << >>, "app" :> "web",
             << Vol("cfg", NilRef, NilRef), Vol(NilRef, NilRef, "q") >>,
             << Ctr("app", << EnvFrom("cfg", NilRef) >>, << >>) >>, << >>),
    Workload("api", "tier" :> "fe", << >>, ("app" :> "web") @@ ("tier" :> "fe"),
             << Vol("cfg", NilRef, NilRef), Vol(NilRef, "sec", NilRef) >>,
             << Ctr("api", << EnvFrom(NilRef, "sec") >>, << EnvVar("sec") >>),
                Ctr("log", << >>, << EnvVar(NilRef) >>) >>, << >>) >>

StatefulSetPool == <<
    Workload("db", "app" :> "db", << >>, "app" :> "db",
             << >>,
             << Ctr("db", << >>, << EnvVar("sec") >>) >>, << "data" >>),
    Workload("mq", ("app" :> "web") @@ ("tier" :> "fe"), << >>, "app" :> "mq",
             << Vol("cfg", NilRef, NilRef), Vol(NilRef, NilRef, "q") >>,
             << Ctr("mq", << >>, << >>) >>, << >>) >>

DaemonSetPool == <<
    Workload("agent", "app" :> "web", << >>, "app" :> "agent",
             << Vol(NilRef, "sec", NilRef) >>,
             << Ctr("agent", << EnvFrom("cfg", NilRef) >>, << >>) >>, << >>) >>

ReplicaSetPool == <<
    ReplicaSet("web-1", << Ref("Deployment", "web") >>),
    ReplicaSet("api-1", << Ref("deployment", "web"), Ref("Deployment", "web-1"),
                           Ref("Deployment", "api"), Ref("Deployment", "api") >>) >>

JobPool == <<
    Workload("mig", << >>, << >>, << >>,
             << Vol("cfg", NilRef, NilRef) >>,
             << Ctr("mig", << >>, << >>) >>, << >>),
    Workload("tick-1", "app" :> "web", << Ref("CronJob", "tick") >>, << >>,
             << Vol("cfg", NilRef, NilRef) >>,
             << Ctr("tick", << >>, << >>) >>, << >>),
    Workload("odd", << >>, << Ref("Deployment", "web"), Ref("CronJob", "tick") >>, << >>,
             << >>, << Ctr("odd", << >>, << >>) >>, << >>) >>

CronJobPool == <<
    Workload("tick", "app" :> "web", << >>, << >>,
             << Vol("cfg", NilRef, NilRef) >>,
             << Ctr("tick", << EnvFrom(NilRef, "sec") >>, << >>) >>, << >>) >>

Pool == [Services |-> ServicePool, ConfigMaps |-> ConfigMapPool,
         Secrets |-> SecretPool, PVCs |-> PVCPool, Pods |-> PodPool,
         Deployments |-> DeploymentPool, StatefulSets |-> StatefulSetPool,
         DaemonSets |-> DaemonSetPool, ReplicaSets |-> ReplicaSetPool,
         Jobs |-> JobPool, CronJobs |-> CronJobPool]

PoolIds == UNION { {k} \X (1..Len(Pool[k])) : k \in DOMAIN Pool }

\* the subsets of S with at most n elements
RECURSIVE AtMost(_, _)
AtMost(S, n) ==
    IF n = 0 THEN { {} }
    ELSE LET smaller == AtMost(S, n - 1)
         IN  smaller \cup { T \cup {x} : T \in smaller, x \in S }

\* the sequences that list every element of S once
Orderings(S) ==
    { f \in [1..Cardinality(S) -> S] : \A i, j \in DOMAIN f : i # j => f[i] # f[j] }

\* the items of kind k picked by sel, in the order ord
ItemsOf(k, ord) == [j \in DOMAIN ord |-> Pool[k][ord[j]]]

PickedOf(sel, k) == { id[2] : id \in { x \in sel : x[1] = k } }

(***************************************************************************)
(* pkg/k8s/resources.go: explicit ownership                                *)
(***************************************************************************)
\* a plausible slip: only the first owner reference is compared
OwnedByFirstOnly(owners, j, ownerKind, ownerName) ==
    /\ Len(owners) > 0
    /\ owners[1].Kind = ownerKind
    /\ owners[1].Name = ownerName

\* the inner loop over OwnerReferences, left by break at the first match
RECURSIVE OwnedBy(_, _, _, _)
OwnedBy(owners, j, ownerKind, ownerName) ==
    IF j > Len(owners) THEN FALSE
    ELSE IF owners[j].Kind = ownerKind /\ owners[j].Name = ownerName THEN TRUE
    ELSE OwnedBy(owners, j + 1, ownerKind, ownerName)

\* the outer loop over Items: appends item i when its inner loop matched
RECURSIVE ByOwner(_, _, _, _)
ByOwner(items, i, ownerKind, ownerName) ==
    IF i > Len(items) THEN << >>
    ELSE (IF OwnedBy(items[i].OwnerReferences, 1, ownerKind, ownerName)
          THEN << items[i] >> ELSE << >>)
         \o ByOwner(items, i + 1, ownerKind, ownerName)

GetPodsByOwner(r, ownerKind, ownerName) == ByOwner(r.Pods, 1, ownerKind, ownerName)

GetReplicaSetsByOwner(r, ownerKind, ownerName) ==
    ByOwner(r.ReplicaSets, 1, ownerKind, ownerName)

GetJobsByOwner(r, ownerKind, ownerName) == ByOwner(r.Jobs, 1, ownerKind, ownerName)

(***************************************************************************)
(* pkg/k8s/resources.go: FindRelatedResources                              *)
(* The four maps are keyed by resource name; a value is the index i of     *)
(* the item the stored pointer &Items[i] points to.                        *)
(***************************************************************************)
\* a plausible slip: the pointer is appended to a slice instead of being
\* stored under its name, so a second reference adds a second entry
RECURSIVE UnusedKey(_, _)
UnusedKey(m, key) == IF key \in DOMAIN m THEN UnusedKey(m, key \o "+") ELSE key

PutAppending(m, key, value) ==
    [k \in (DOMAIN m) \cup {UnusedKey(m, key)} |->
        IF k = UnusedKey(m, key) THEN value ELSE m[k]]

\* m[key] = value
Put(m, key, value) ==
    [k \in (DOMAIN m) \cup {key} |-> IF k = key THEN value ELSE m[k]]

\* a plausible slip: the name is compared with strings.Contains
RECURSIVE PutFirstNamedLoose(_, _, _, _)
PutFirstNamedLoose(m, items, i, name) ==
    IF i > Len(items) THEN m
    ELSE IF Contains(items[i].Name, name) THEN Put(m, items[i].Name, i)
    ELSE PutFirstNamedLoose(m, items, i + 1, name)

\* for i, x := range items { if x.Name == name { m[x.Name] = &items[i]; break } }
RECURSIVE PutFirstNamed(_, _, _, _)
PutFirstNamed(m, items, i, name) ==
    IF i > Len(items) THEN m
    ELSE IF items[i].Name = name THEN Put(m, items[i].Name, i)
    ELSE PutFirstNamed(m, items, i + 1, name)

\* the same loop without break (volume claim templates)
RECURSIVE PutEachNamed(_, _, _, _)
PutEachNamed(m, items, i, name) ==
    IF i > Len(items) THEN m
    ELSE PutEachNamed(IF items[i].Name = name THEN Put(m, items[i].Name, i) ELSE m,
                      items, i + 1, name)

\* for i, pvc := range PVCs { if strings.Contains(pvc.Name, workloadName) { ... } }
RECURSIVE PutEachContaining(_, _, _, _)
PutEachContaining(m, items, i, workloadName) ==
    IF i > Len(items) THEN m
    ELSE PutEachContaining(IF Contains(items[i].Name, workloadName)
                           THEN Put(m, items[i].Name, i) ELSE m,
                           items, i + 1, workloadName)

\* a plausible slip: every PVC of the template is taken, whatever its ordinal
RECURSIVE VolumeClaimTemplatesLoopAnyOrdinal(_, _, _, _, _)
VolumeClaimTemplatesLoopAnyOrdinal(pvcMap, pvcs, templates, t, workloadName) ==
    IF t > Len(templates) THEN pvcMap
    ELSE LET pvcPrefix == templates[t] \o "-" \o workloadName \o "-"
         IN  VolumeClaimTemplatesLoopAnyOrdinal(
                 PutEachContaining(pvcMap, pvcs, 1, pvcPrefix),
                 pvcs, templates, t + 1, workloadName)

\* StatefulSet case of the type switch: one lookup per volume claim template
RECURSIVE VolumeClaimTemplatesLoop(_, _, _, _, _)
VolumeClaimTemplatesLoop(pvcMap, pvcs, templates, t, workloadName) ==
    IF t > Len(templates) THEN pvcMap
    ELSE LET pvcName == templates[t] \o "-" \o workloadName \o "-0"
         IN  VolumeClaimTemplatesLoop(PutEachNamed(pvcMap, pvcs, 1, pvcName),
                                      pvcs, templates, t + 1, workloadName)

\* a plausible slip: the test len(selector) > 0 is left out
SelectorMatchesVacuously(selector, workloadLabels) ==
    \A key \in DOMAIN selector : MapGet(workloadLabels, key) = selector[key]

\* len(selector) > 0 and no pair with workloadLabels[key] != value
SelectorMatches(selector, workloadLabels) ==
    /\ Cardinality(DOMAIN selector) > 0
    /\ \A key \in DOMAIN selector : MapGet(workloadLabels, key) = selector[key]

\* the StatefulSet fallback on the service name
NameMatches(workloadKind, svcName, workloadName) ==
    /\ workloadKind = "StatefulSet"
    /\ (svcName = workloadName \/ svcName = workloadName \o "-headless")

\* one iteration of the loop over Services: is svc put into serviceMap?
ServiceMatches(svc, workloadKind, workloadLabels, workloadName) ==
    IF svc.Selector.IsNil THEN FALSE
    ELSE \/ SelectorMatches(svc.Selector.Map, workloadLabels)
         \/ NameMatches(workloadKind, svc.Name, workloadName)

RECURSIVE ServicesLoop(_, _, _, _, _, _)
ServicesLoop(serviceMap, svcs, i, workloadKind, workloadLabels, workloadName) ==
    IF i > Len(svcs) THEN serviceMap
    ELSE ServicesLoop(
             IF ServiceMatches(svcs[i], workloadKind, workloadLabels, workloadName)
             THEN Put(serviceMap, svcs[i].Name, i) ELSE serviceMap,
             svcs, i + 1, workloadKind, workloadLabels, workloadName)

\* a plausible slip: the fallback on the workload name is taken for a
\* workload of any kind
PVCVolumeAnyKind(pvcMap, pvcs, claimName, workloadKind, workloadName) ==
    LET direct == PutFirstNamed(pvcMap, pvcs, 1, claimName)
        pvcFound == \E i \in 1..Len(pvcs) : pvcs[i].Name = claimName
    IN  IF pvcFound THEN direct
        ELSE PutEachContaining(pvcMap, pvcs, 1, workloadName)

\* the PersistentVolumeClaim branch of one volume
PVCVolume(pvcMap, pvcs, claimName, workloadKind, workloadName) ==
    LET direct == PutFirstNamed(pvcMap, pvcs, 1, claimName)
        pvcFound == \E i \in 1..Len(pvcs) : pvcs[i].Name = claimName
    IN  IF pvcFound THEN direct
        ELSE IF workloadKind = "StatefulSet"
             THEN PutEachContaining(pvcMap, pvcs, 1, workloadName)
             ELSE pvcMap

\* a plausible slip: the loop over the volumes ends at the first volume that
\* names a resource the namespace does not have
RECURSIVE VolumesLoopUntilMissing(_, _, _, _, _, _)
VolumesLoopUntilMissing(maps, r, volumes, v, workloadKind, workloadName) ==
    IF v > Len(volumes) THEN maps
    ELSE LET vol == volumes[v]
             has(items, name) == name = NilRef \/ \E i \in 1..Len(items) : items[i].Name = name
             step ==
                 [configMapMap |->
                      IF vol.ConfigMap # NilRef
                      THEN PutFirstNamed(maps.configMapMap, r.ConfigMaps, 1, vol.ConfigMap)
                      ELSE maps.configMapMap,
                  secretMap |->
                      IF vol.Secret # NilRef
                      THEN PutFirstNamed(maps.secretMap, r.Secrets, 1, vol.Secret)
                      ELSE maps.secretMap,
                  pvcMap |->
                      IF vol.PersistentVolumeClaim # NilRef
                      THEN PVCVolume(maps.pvcMap, r.PVCs, vol.PersistentVolumeClaim,
                                     workloadKind, workloadName)
                      ELSE maps.pvcMap]
         IN  IF /\ has(r.ConfigMaps, vol.ConfigMap)
                /\ has(r.Secrets, vol.Secret)
                /\ has(r.PVCs, vol.PersistentVolumeClaim)
             THEN VolumesLoopUntilMissing(step, r, volumes, v + 1, workloadKind, workloadName)
             ELSE step

\* for _, vol := range podSpec.Volumes; maps is the record of the three maps
RECURSIVE VolumesLoop(_, _, _, _, _, _)
VolumesLoop(maps, r, volumes, v, workloadKind, workloadName) ==
    IF v > Len(volumes) THEN maps
    ELSE LET vol == volumes[v]
             step ==
                 [configMapMap |->
                      IF vol.ConfigMap # NilRef
                      THEN PutFirstNamed(maps.configMapMap, r.ConfigMaps, 1, vol.ConfigMap)
                      ELSE maps.configMapMap,
                  secretMap |->
                      IF vol.Secret # NilRef
                      THEN PutFirstNamed(maps.secretMap, r.Secrets, 1, vol.Secret)
                      ELSE maps.secretMap,
                  pvcMap |->
                      IF vol.PersistentVolumeClaim # NilRef
                      THEN PVCVolume(maps.pvcMap, r.PVCs, vol.PersistentVolumeClaim,
                                     workloadKind, workloadName)
                      ELSE maps.pvcMap]
         IN  VolumesLoop(step, r, volumes, v + 1, workloadKind, workloadName)

\* for _, envFrom := range container.EnvFrom: only SecretRef is looked at
RECURSIVE EnvFromLoop(_, _, _, _)
EnvFromLoop(maps, r, envFrom, e) ==
    IF e > Len(envFrom) THEN maps
    ELSE EnvFromLoop(
             IF envFrom[e].SecretRef # NilRef
             THEN [maps EXCEPT !.secretMap =
                       PutFirstNamed(@, r.Secrets, 1, envFrom[e].SecretRef)]
             ELSE maps,
             r, envFrom, e + 1)

\* for _, env := range container.Env: ValueFrom.SecretKeyRef
RECURSIVE EnvLoop(_, _, _, _)
EnvLoop(maps, r, env, e) ==
    IF e > Len(env) THEN maps
    ELSE EnvLoop(
             IF env[e].SecretKeyRef # NilRef
             THEN [maps EXCEPT !.secretMap =
                       PutFirstNamed(@, r.Secrets, 1, env[e].SecretKeyRef)]
             ELSE maps,
             r, env, e + 1)

\* for _, container := range podSpec.Containers
RECURSIVE ContainersLoop(_, _, _, _)
ContainersLoop(maps, r, containers, c) ==
    IF c > Len(containers) THEN maps
    ELSE ContainersLoop(
             EnvLoop(EnvFromLoop(maps, r, containers[c].EnvFrom, 1),
                     r, containers[c].Env, 1),
             r, containers, c + 1)

\* the state of serviceMap, configMapMap, secretMap and pvcMap when the
\* function reaches "convert maps back to slices"
RelatedMaps(r, workloadKind, workload, podSpec) ==
    LET workloadLabels == workload.Labels
        workloadName == workload.Name
        pvcMap0 == IF workloadKind = "StatefulSet"
                   THEN VolumeClaimTemplatesLoop(<< >>, r.PVCs,
                            workload.VolumeClaimTemplates, 1, workloadName)
                   ELSE << >>
        serviceMap == ServicesLoop(<< >>, r.Services, 1, workloadKind,
                                   workloadLabels, workloadName)
        afterVolumes == VolumesLoop([configMapMap |-> << >>, secretMap |-> << >>,
                                     pvcMap |-> pvcMap0],
                                    r, podSpec.Volumes, 1, workloadKind, workloadName)
        afterEnv == ContainersLoop(afterVolumes, r, podSpec.Containers, 1)
    IN  [serviceMap |-> serviceMap, configMapMap |-> afterEnv.configMapMap,
         secretMap |-> afterEnv.secretMap, pvcMap |-> afterEnv.pvcMap]

\* for _, x := range m { slice = append(slice, x) }: Go iterates a map in an
\* unspecified order, so every order of the entries is a possible slice
MapToSlices(m, items) ==
    { [j \in DOMAIN ord |-> items[m[ord[j]]]] : ord \in Orderings(DOMAIN m) }

\* the results FindRelatedResources can return; fnd (the found map) is a
\* parameter the function neither reads nor writes
FindRelatedResources(r, workloadKind, workload, podSpec, fnd) ==
    LET maps == RelatedMaps(r, workloadKind, workload, podSpec)
    IN  { [services |-> s, configMaps |-> c, secrets |-> x, pvcs |-> p] :
              s \in MapToSlices(maps.serviceMap, r.Services),
              c \in MapToSlices(maps.configMapMap, r.ConfigMaps),
              x \in MapToSlices(maps.secretMap, r.Secrets),
              p \in MapToSlices(maps.pvcMap, r.PVCs) }

(***************************************************************************)
(* pkg/tree: Resource, Builder                                             *)
(***************************************************************************)
\* &Resource{Kind: kind, Name: name, Children: children}
Node(kind, name, children) == [Kind |-> kind, Name |-> name, Children |-> children]

\* the nil *Resource (no node of a tree has an empty kind)
NilResource == Node("", "", << >>)

\* one childless node of the given kind per item of a slice
NodesOf(kind, items) == [j \in DOMAIN items |-> Node(kind, items[j].Name, << >>)]

\* a plausible slip: the containers are added by the loop and once more by
\* addContainersToTree
PodNodesContainersTwice(pods) ==
    [j \in DOMAIN pods |->
        Node("Pod", pods[j].Name,
             [c \in DOMAIN pods[j].Containers |->
                 Node("Container", pods[j].Containers[c], << >>)]
             \o [c \in DOMAIN pods[j].Containers |->
                 Node("Container", pods[j].Containers[c], << >>)])]

\* the Pod nodes of a slice of pods, each with one Container child per
\* container of pod.Spec.Containers
PodNodes(pods) ==
    [j \in DOMAIN pods |->
        Node("Pod", pods[j].Name,
             [c \in DOMAIN pods[j].Containers |->
                 Node("Container", pods[j].Containers[c], << >>)])]

\* a plausible slip: a Service that already has a node in the tree is left out
addRelatedResourcesOnce(workloadKind, workload, workloadNode, r, fnd) ==
    { [workloadNode EXCEPT !.Children =
           @ \o SelectSeq(NodesOf("Service", rel.services),
                          LAMBDA n : \A i \in 1..Len(root.Children) :
                                        \A c \in 1..Len(root.Children[i].Children) :
                                            root.Children[i].Children[c] # n)
             \o NodesOf("ConfigMap", rel.configMaps)
             \o NodesOf("Secret", rel.secrets)
             \o NodesOf("PersistentVolumeClaim", rel.pvcs)] :
      rel \in FindRelatedResources(r, workloadKind, workload, workload.PodSpec, fnd) }

\* addRelatedResources: the workload node with the Service, ConfigMap, Secret
\* and PVC nodes appended, for every result FindRelatedResources can return
addRelatedResources(workloadKind, workload, workloadNode, r, fnd) ==
    { [workloadNode EXCEPT !.Children =
           @ \o NodesOf("Service", rel.services)
             \o NodesOf("ConfigMap", rel.configMaps)
             \o NodesOf("Secret", rel.secrets)
             \o NodesOf("PersistentVolumeClaim", rel.pvcs)] :
      rel \in FindRelatedResources(r, workloadKind, workload, workload.PodSpec, fnd) }

\* a plausible slip: the Pods are looked up under the Deployment name
ReplicaSetNodesByDeployment(r, depName) ==
    LET rss == GetReplicaSetsByOwner(r, "Deployment", depName)
    IN  [j \in DOMAIN rss |->
            Node("ReplicaSet", rss[j].Name,
                 PodNodes(GetPodsByOwner(r, "ReplicaSet", depName)))]

\* the ReplicaSet nodes of a Deployment, each with its Pod nodes
ReplicaSetNodes(r, depName) ==
    LET rss == GetReplicaSetsByOwner(r, "Deployment", depName)
    IN  [j \in DOMAIN rss |->
            Node("ReplicaSet", rss[j].Name,
                 PodNodes(GetPodsByOwner(r, "ReplicaSet", rss[j].Name)))]

\* a plausible slip: the related resources of each Job are attached as well
CronJobJobNodesWithRelated(r, cronJobName) ==
    LET jobs == GetJobsByOwner(r, "CronJob", cronJobName)
    IN  [j \in DOMAIN jobs |->
            LET withRelated == CHOOSE n \in addRelatedResources("Job", jobs[j],
                                        Node("Job", jobs[j].Name, << >>), r, {}) : TRUE
            IN  [withRelated EXCEPT !.Children =
                     @ \o PodNodes(GetPodsByOwner(r, "Job", jobs[j].Name))]]

\* the Job nodes of a CronJob, each with its Pod nodes
CronJobJobNodes(r, cronJobName) ==
    LET jobs == GetJobsByOwner(r, "CronJob", cronJobName)
    IN  [j \in DOMAIN jobs |->
            Node("Job", jobs[j].Name, PodNodes(GetPodsByOwner(r, "Job", jobs[j].Name)))]

\* a plausible slip: a CronJob anywhere among the owner references counts
IsStandaloneNoCronJobRef(job) ==
    \A k \in 1..Len(job.OwnerReferences) : job.OwnerReferences[k].Kind # "CronJob"

\* a plausible slip: only Jobs without any owner reference count as standalone
IsStandaloneNoOwners(job) ==
    Len(job.OwnerReferences) = 0

\* the test of the standalone-Jobs loop
IsStandalone(job) ==
    Len(job.OwnerReferences) = 0 \/ job.OwnerReferences[1].Kind # "CronJob"

\* the five loops of BuildTree, in source order
Loops == << "Deployments", "StatefulSets", "DaemonSets", "Jobs", "CronJobs" >>

\* the next loop iteration at or after iteration i of loop l: <<loop, index>>,
\* or <<"built", 0>> when the last loop is finished and BuildTree returns
RECURSIVE Position(_, _, _)
Position(r, l, i) ==
    IF l > Len(Loops) THEN << "built", 0 >>
    ELSE IF i <= Len(r[Loops[l]]) THEN << Loops[l], i >>
    ELSE Position(r, l + 1, 1)

\* a plausible slip: the CronJob list is left out of the test
IsEmptyNamespaceNoCronJobs(r) ==
    /\ Len(r.Deployments) = 0
    /\ Len(r.StatefulSets) = 0
    /\ Len(r.DaemonSets) = 0
    /\ Len(r.Jobs) = 0

\* the check "namespace is empty" of BuildTree
IsEmptyNamespace(r) ==
    /\ Len(r.Deployments) = 0
    /\ Len(r.StatefulSets) = 0
    /\ Len(r.DaemonSets) = 0
    /\ Len(r.Jobs) = 0
    /\ Len(r.CronJobs) = 0

(***************************************************************************)
(* pkg/tree/printer.go: Printer                                            *)
(***************************************************************************)
colorReset == "^[0m"
colorGreen == "^[32m"
colorYellow == "^[33m"
colorBlue == "^[34m"
colorPurple == "^[35m"
colorCyan == "^[36m"

getResourceColor(color, kind) ==
    IF ~color THEN ""
    ELSE IF kind \in {"Deployment", "StatefulSet", "DaemonSet"} THEN colorBlue
    ELSE IF kind = "Pod" THEN colorGreen
    ELSE IF kind = "Service" THEN colorYellow
    ELSE IF kind \in {"ConfigMap", "Secret"} THEN colorPurple
    ELSE IF kind = "PersistentVolumeClaim" THEN colorCyan
    ELSE ""

getConnector(isLast) == IF isLast THEN "'-- " ELSE "+-- "

\* a plausible slip: the two continuation strings are exchanged
ChildPrefixSwapped(prefix, isLast) == IF isLast THEN prefix \o "|   " ELSE prefix \o "    "

\* the prefix PrintTree hands to the children of a node
ChildPrefix(prefix, isLast) == IF isLast THEN prefix \o "    " ELSE prefix \o "|   "

\* the line PrintTree writes for a node (without the newline)
Line(color, node, prefix, isLast) ==
    prefix \o getConnector(isLast) \o getResourceColor(color, node.Kind)
           \o node.Kind \o "/" \o node.Name \o colorReset

RECURSIVE PrintTree(_, _, _, _)
RECURSIVE PrintChildren(_, _, _, _)
\* a plausible slip: a node's line is written after the lines of its children
PrintTreePostOrder(color, node, prefix, isLast) ==
    IF node = NilResource THEN << >>
    ELSE PrintChildren(color, node.Children, 1, ChildPrefix(prefix, isLast))
         \o << Line(color, node, prefix, isLast) >>

\* the lines PrintTree(node, prefix, isLast) writes, in order
PrintTree(color, node, prefix, isLast) ==
    IF node = NilResource THEN << >>
    ELSE << Line(color, node, prefix, isLast) >>
         \o PrintChildren(color, node.Children, 1, ChildPrefix(prefix, isLast))

\* the loop of PrintTree over node.Children, from child i on
PrintChildren(color, children, i, childPrefix) ==
    IF i > Len(children) THEN << >>
    ELSE PrintTree(color, children[i], childPrefix, i = Len(children))
         \o PrintChildren(color, children, i + 1, childPrefix)

(***************************************************************************)
(* State machine: main, Client.GetResources, Builder.BuildTree,            *)
(* Printer.PrintTree                                                       *)
(***************************************************************************)
\* the namespaces with the picked resources, each list in every order
\* no Get...ByOwner call made yet
NoLookup == [method |-> "", ownerKind |-> "", ownerName |-> "", result |-> << >>]

Snapshots(sel) ==
    { [Services |-> ItemsOf("Services", o1), ConfigMaps |-> ItemsOf("ConfigMaps", o2),
       Secrets |-> ItemsOf("Secrets", o3), PVCs |-> ItemsOf("PVCs", o4),
       Pods |-> ItemsOf("Pods", o5), Deployments |-> ItemsOf("Deployments", o6),
       StatefulSets |-> ItemsOf("StatefulSets", o7),
       DaemonSets |-> ItemsOf("DaemonSets", o8),
       ReplicaSets |-> ItemsOf("ReplicaSets", o9), Jobs |-> ItemsOf("Jobs", o10),
       CronJobs |-> ItemsOf("CronJobs", o11)] :
      o1 \in Orderings(PickedOf(sel, "Services")),
      o2 \in Orderings(PickedOf(sel, "ConfigMaps")),
      o3 \in Orderings(PickedOf(sel, "Secrets")),
      o4 \in Orderings(PickedOf(sel, "PVCs")),
      o5 \in Orderings(PickedOf(sel, "Pods")),
      o6 \in Orderings(PickedOf(sel, "Deployments")),
      o7 \in Orderings(PickedOf(sel, "StatefulSets")),
      o8 \in Orderings(PickedOf(sel, "DaemonSets")),
      o9 \in Orderings(PickedOf(sel, "ReplicaSets")),
      o10 \in Orderings(PickedOf(sel, "Jobs")),
      o11 \in Orderings(PickedOf(sel, "CronJobs")) }

Init ==
    /\ \E sel \in AtMost(PoolIds, MaxItems) : cluster \in Snapshots(sel)
    /\ useColor \in BOOLEAN
    /\ resources = NilResources
    /\ listCalls = << >>
    /\ root = NilResource
    /\ found = {}
    /\ pc = "main"
    /\ idx = 0
    /\ err = ""
    /\ stdout = << >>
    /\ exitCode = -1
    /\ run = 1
    /\ prevOut = << >>
    /\ lookup = NoLookup
    /\ sortLog = << >>

\* the resource word of the error message of each List call
ListNames == << "services", "configmaps", "secrets", "pvcs", "pods", "deployments",
                "statefulsets", "daemonsets", "replicasets", "jobs", "cronjobs" >>

\* the text of the error a failing List call returns
ListError == "unavailable"

\* what fmt prints for the *os.File main passes instead of err
StderrText == "&{file}"

\* a plausible slip: the error is recorded but the remaining lists are still
\* fetched and the collections handed on
FetchFailsLate ==
    /\ pc = "main"
    /\ \E failing \in 1..Len(Kinds) :
          /\ listCalls' = Kinds
          /\ err' = "error fetching " \o ListNames[failing] \o ": " \o ListError
          /\ resources' = [k \in DOMAIN cluster |->
                              IF k = Kinds[failing] THEN << >> ELSE cluster[k]]
    /\ stdout' = Append(stdout, "Error building resource tree: " \o StderrText)
    /\ exitCode' = 1
    /\ pc' = "exit"
    /\ UNCHANGED << cluster, root, found, idx, useColor, run, prevOut, lookup, sortLog >>

\* GetResources returns at the first failing List call, BuildTree returns
\* (nil, err) before it stores anything, main prints its message and exits
FetchFails ==
    /\ pc = "main"
    /\ \E failing \in 1..Len(Kinds) :
          /\ listCalls' = SubSeq(Kinds, 1, failing)
          /\ err' = "error fetching " \o ListNames[failing] \o ": " \o ListError
    /\ stdout' = Append(stdout, "Error building resource tree: " \o StderrText)
    /\ exitCode' = 1
    /\ pc' = "exit"
    /\ UNCHANGED << cluster, resources, root, found, idx, useColor, run, prevOut,
                    lookup, sortLog >>

\* all eleven lists fetched, the five workload lists are empty:
\* BuildTree prints the message and returns (nil, nil)
NoResourcesFound ==
    /\ pc = "main"
    /\ IsEmptyNamespace(cluster)
    /\ listCalls' = Kinds
    /\ resources' = cluster
    /\ stdout' = Append(stdout, "No resources found in " \o Namespace \o " namespace.")
    /\ pc' = "returned"
    /\ UNCHANGED << cluster, root, found, idx, err, exitCode, useColor, run, prevOut, lookup, sortLog >>

\* all eleven lists fetched: BuildTree creates the root and the found map
\* and enters its first loop
BuildTreeBegin ==
    /\ pc = "main"
    /\ ~IsEmptyNamespace(cluster)
    /\ listCalls' = Kinds
    /\ resources' = cluster
    /\ root' = Node("Namespace", Namespace, << >>)
    /\ found' = {}
    /\ pc' = Position(cluster, 1, 1)[1]
    /\ idx' = Position(cluster, 1, 1)[2]
    /\ UNCHANGED << cluster, err, stdout, exitCode, useColor, run, prevOut, lookup, sortLog >>

\* leave iteration idx of loop l
Advance(l) ==
    /\ pc' = Position(resources, l, idx + 1)[1]
    /\ idx' = Position(resources, l, idx + 1)[2]

\* one iteration of "Add Deployments"
AddDeployment ==
    /\ pc = "Deployments"
    /\ LET dep == resources.Deployments[idx]
       IN  \E depNode \in addRelatedResources("Deployment", dep,
                              Node("Deployment", dep.Name, << >>), resources, found) :
              root' = [root EXCEPT !.Children = Append(@,
                          [depNode EXCEPT !.Children =
                               @ \o ReplicaSetNodes(resources, dep.Name)])]
    /\ Advance(1)
    /\ UNCHANGED << cluster, resources, listCalls, found, err, stdout, exitCode,
                    useColor, run, prevOut, lookup, sortLog >>

\* one iteration of "Add StatefulSets"
AddStatefulSet ==
    /\ pc = "StatefulSets"
    /\ LET sts == resources.StatefulSets[idx]
       IN  \E stsNode \in addRelatedResources("StatefulSet", sts,
                              Node("StatefulSet", sts.Name, << >>), resources, found) :
              root' = [root EXCEPT !.Children = Append(@,
                          [stsNode EXCEPT !.Children =
                               @ \o PodNodes(GetPodsByOwner(resources, "StatefulSet",
                                                            sts.Name))])]
    /\ Advance(2)
    /\ UNCHANGED << cluster, resources, listCalls, found, err, stdout, exitCode,
                    useColor, run, prevOut, lookup, sortLog >>

\* one iteration of "Add DaemonSets"
AddDaemonSet ==
    /\ pc = "DaemonSets"
    /\ LET ds == resources.DaemonSets[idx]
       IN  \E dsNode \in addRelatedResources("DaemonSet", ds,
                             Node("DaemonSet", ds.Name, << >>), resources, found) :
              root' = [root EXCEPT !.Children = Append(@,
                          [dsNode EXCEPT !.Children =
                               @ \o PodNodes(GetPodsByOwner(resources, "DaemonSet",
                                                            ds.Name))])]
    /\ Advance(3)
    /\ UNCHANGED << cluster, resources, listCalls, found, err, stdout, exitCode,
                    useColor, run, prevOut, lookup, sortLog >>

\* one iteration of "Add standalone Jobs": a Job whose first owner reference
\* is a CronJob is passed over
AddJob ==
    /\ pc = "Jobs"
    /\ LET job == resources.Jobs[idx]
       IN  IF IsStandalone(job)
           THEN \E jobNode \in addRelatedResources("Job", job,
                                   Node("Job", job.Name, << >>), resources, found) :
                   root' = [root EXCEPT !.Children = Append(@,
                               [jobNode EXCEPT !.Children =
                                    @ \o PodNodes(GetPodsByOwner(resources, "Job",
                                                                 job.Name))])]
           ELSE root' = root
    /\ Advance(4)
    /\ UNCHANGED << cluster, resources, listCalls, found, err, stdout, exitCode,
                    useColor, run, prevOut, lookup, sortLog >>

\* a plausible slip: the Jobs attached under the CronJob are taken out of the
\* Job collection
AddCronJobConsuming ==
    /\ pc = "CronJobs"
    /\ LET cronJob == resources.CronJobs[idx]
       IN  /\ root' = [root EXCEPT !.Children = Append(@,
                           Node("CronJob", cronJob.Name,
                                CronJobJobNodes(resources, cronJob.Name)))]
           /\ resources' = [resources EXCEPT !.Jobs =
                   SelectSeq(@, LAMBDA job :
                       ~OwnedBy(job.OwnerReferences, 1, "CronJob", cronJob.Name))]
    /\ Advance(5)
    /\ UNCHANGED << cluster, listCalls, found, err, stdout, exitCode,
                    useColor, run, prevOut, lookup, sortLog >>

\* one iteration of "Add CronJobs": no related resources
AddCronJob ==
    /\ pc = "CronJobs"
    /\ LET cronJob == resources.CronJobs[idx]
       IN  root' = [root EXCEPT !.Children = Append(@,
                       Node("CronJob", cronJob.Name,
                            CronJobJobNodes(resources, cronJob.Name)))]
    /\ Advance(5)
    /\ UNCHANGED << cluster, resources, listCalls, found, err, stdout, exitCode,
                    useColor, run, prevOut, lookup, sortLog >>

\* main after BuildTree returned without error: BuildTree returns root after
\* its last loop ("built") or nil ("returned"); PrintTree(root, "", true)
PrintRoot ==
    /\ pc \in {"built", "returned"}
    /\ err = ""
    /\ stdout' = stdout \o PrintTree(useColor, root, "", TRUE)
    /\ exitCode' = 0
    /\ pc' = "exit"
    /\ UNCHANGED << cluster, resources, listCalls, root, found, idx, err,
                    useColor, run, prevOut, lookup, sortLog >>

\* the program is started again on the same namespace content
Rerun ==
    /\ pc = "exit"
    /\ exitCode = 0
    /\ run < MaxRuns
    /\ run' = run + 1
    /\ prevOut' = stdout
    /\ stdout' = << >>
    /\ resources' = NilResources
    /\ listCalls' = << >>
    /\ root' = NilResource
    /\ found' = {}
    /\ pc' = "main"
    /\ idx' = 0
    /\ err' = ""
    /\ exitCode' = -1
    /\ UNCHANGED << cluster, useColor, lookup, sortLog >>

Next ==
    \/ FetchFails
    \/ NoResourcesFound
    \/ BuildTreeBegin
    \/ AddDeployment
    \/ AddStatefulSet
    \/ AddDaemonSet
    \/ AddJob
    \/ AddCronJob
    \/ PrintRoot
    \/ Rerun

Spec == Init /\ [][Next]_vars

(***************************************************************************)
(* The owner lookups as a client of k8s.Resources calls them               *)
(***************************************************************************)
\* the owner kinds and names the lookups are called with
OwnerKinds == {"Deployment", "deployment", "ReplicaSet", "CronJob"}
OwnerNames == {"web", "web-1", "we", "api", "tick"}

\* Client.GetResources succeeds
GetResources ==
    /\ pc = "main"
    /\ listCalls' = Kinds
    /\ resources' = cluster
    /\ pc' = "fetched"
    /\ UNCHANGED << cluster, root, found, idx, err, stdout, exitCode, useColor,
                    run, prevOut, lookup, sortLog >>

CallGetPodsByOwner ==
    /\ pc = "fetched"
    /\ \E ownerKind \in OwnerKinds, ownerName \in OwnerNames :
          lookup' = [method |-> "GetPodsByOwner", ownerKind |-> ownerKind,
                     ownerName |-> ownerName,
                     result |-> GetPodsByOwner(resources, ownerKind, ownerName)]
    /\ pc' = "looked"
    /\ UNCHANGED << cluster, resources, listCalls, root, found, idx, err, stdout,
                    exitCode, useColor, run, prevOut, sortLog >>

CallGetReplicaSetsByOwner ==
    /\ pc = "fetched"
    /\ \E ownerKind \in OwnerKinds, ownerName \in OwnerNames :
          lookup' = [method |-> "GetReplicaSetsByOwner", ownerKind |-> ownerKind,
                     ownerName |-> ownerName,
                     result |-> GetReplicaSetsByOwner(resources, ownerKind, ownerName)]
    /\ pc' = "looked"
    /\ UNCHANGED << cluster, resources, listCalls, root, found, idx, err, stdout,
                    exitCode, useColor, run, prevOut, sortLog >>

CallGetJobsByOwner ==
    /\ pc = "fetched"
    /\ \E ownerKind \in OwnerKinds, ownerName \in OwnerNames :
          lookup' = [method |-> "GetJobsByOwner", ownerKind |-> ownerKind,
                     ownerName |-> ownerName,
                     result |-> GetJobsByOwner(resources, ownerKind, ownerName)]
    /\ pc' = "looked"
    /\ UNCHANGED << cluster, resources, listCalls, root, found, idx, err, stdout,
                    exitCode, useColor, run, prevOut, sortLog >>

NextByOwner ==
    \/ GetResources
    \/ CallGetPodsByOwner
    \/ CallGetReplicaSetsByOwner
    \/ CallGetJobsByOwner

SpecByOwner == Init /\ [][NextByOwner]_vars

(***************************************************************************)
(* Properties                                                              *)
(***************************************************************************)
\* the collection a Get...ByOwner method searches
SearchedBy(method) ==
    IF method = "GetPodsByOwner" THEN resources.Pods
    ELSE IF method = "GetReplicaSetsByOwner" THEN resources.ReplicaSets
    ELSE resources.Jobs

\* item has an owner reference with exactly this kind and this name
HasOwnerRef(item, kind, name) ==
    \E j \in 1..Len(item.OwnerReferences) :
        item.OwnerReferences[j] = [Kind |-> kind, Name |-> name]

\* C1: a Get...ByOwner call returns exactly the items of its collection that
\* have an owner reference equal to (ownerKind, ownerName) in kind and in
\* name, each once; nothing else is returned, and no match gives the empty
\* result
C1_ByOwnerExact ==
    pc = "looked" =>
        LET items == SearchedBy(lookup.method)
            owned == { i \in 1..Len(items) :
                          HasOwnerRef(items[i], lookup.ownerKind, lookup.ownerName) }
        IN  /\ Len(lookup.result) = Cardinality(owned)
            /\ \A i \in owned : \E m \in 1..Len(lookup.result) : lookup.result[m] = items[i]
            /\ \A m \in 1..Len(lookup.result) :
                   \E i \in owned : lookup.result[m] = items[i]

\* C1 witness: a lookup returned one ReplicaSet and left out another one whose
\* references differ from the arguments only in case or only in the name
C1_Witness ==
    /\ pc = "looked"
    /\ lookup.method = "GetReplicaSetsByOwner"
    /\ Len(resources.ReplicaSets) = 2
    /\ Len(lookup.result) = 1
    /\ lookup.ownerKind = "Deployment"
    /\ lookup.ownerName = "web"

(***************************************************************************)
(* Trees, as the properties below read them                                *)
(***************************************************************************)
\* the positions of a tree: the sequences of child indices from the root
RECURSIVE PathsOf(_)
PathsOf(node) ==
    { << >> } \cup
    UNION { { << i >> \o p : p \in PathsOf(node.Children[i]) } :
            i \in 1..Len(node.Children) }

RECURSIVE NodeAt(_, _)
NodeAt(node, p) ==
    IF p = << >> THEN node ELSE NodeAt(node.Children[p[1]], Tail(p))

\* the positions of the tree held in root (none when root is nil)
TreePaths == IF root = NilResource THEN {} ELSE PathsOf(root)

\* the number of nodes of the tree with this kind and name
CountInTree(kind, name) ==
    Cardinality({ p \in TreePaths :
                    NodeAt(root, p).Kind = kind /\ NodeAt(root, p).Name = name })

\* node has a child with this kind and name
HasChild(node, kind, name) ==
    \E c \in 1..Len(node.Children) :
        node.Children[c].Kind = kind /\ node.Children[c].Name = name

\* the names of the children of node that have this kind, in child order
RECURSIVE ChildNames(_, _, _)
ChildNames(node, kind, c) ==
    IF c > Len(node.Children) THEN << >>
    ELSE (IF node.Children[c].Kind = kind THEN << node.Children[c].Name >> ELSE << >>)
         \o ChildNames(node, kind, c + 1)

\* the list of the snapshot that holds the workloads of a node kind
ListOfKind(kind) ==
    IF kind = "Deployment" THEN resources.Deployments
    ELSE IF kind = "StatefulSet" THEN resources.StatefulSets
    ELSE IF kind = "DaemonSet" THEN resources.DaemonSets
    ELSE IF kind = "Job" THEN resources.Jobs
    ELSE resources.CronJobs

\* the workload object a child of the root stands for
WorkloadOf(node) ==
    LET items == ListOfKind(node.Kind)
    IN  items[CHOOSE i \in 1..Len(items) : items[i].Name = node.Name]

\* the kinds of root children whose related resources are resolved
ResolvedKinds == {"Deployment", "StatefulSet", "DaemonSet", "Job"}

RelatedKinds == {"Service", "ConfigMap", "Secret", "PersistentVolumeClaim"}

(***************************************************************************)
(* C2                                                                      *)
(***************************************************************************)
\* the rule of the claim: the selector has pairs and every pair is a label of
\* the workload with the same value, or the StatefulSet name rule
ClaimedServiceRule(svc, kind, w) ==
    \/ /\ ~svc.Selector.IsNil
       /\ DOMAIN svc.Selector.Map # {}
       /\ \A k \in DOMAIN svc.Selector.Map :
              k \in DOMAIN w.Labels /\ w.Labels[k] = svc.Selector.Map[k]
    \/ /\ kind = "StatefulSet"
       /\ (svc.Name = w.Name \/ svc.Name = w.Name \o "-headless")

\* C2: for every workload whose related resources are resolved and every
\* Service of the snapshot, the Service is a child of the workload node if
\* and only if every pair of its selector is satisfied by the workload's
\* labels or the workload is a StatefulSet and the Service is named after it
C2_ServiceIffRule ==
    \A i \in 1..Len(root.Children) :
        root.Children[i].Kind \in ResolvedKinds =>
            \A s \in 1..Len(resources.Services) :
                HasChild(root.Children[i], "Service", resources.Services[s].Name)
                <=> ClaimedServiceRule(resources.Services[s], root.Children[i].Kind,
                                       WorkloadOf(root.Children[i]))

(***************************************************************************)
(* C3                                                                      *)
(***************************************************************************)
\* the names of the resources of a kind that the pod template of w refers to
TemplateRefs(w, kind) ==
    LET vols == w.PodSpec.Volumes
        ctrs == w.PodSpec.Containers
    IN  IF kind = "ConfigMap"
        THEN { vols[v].ConfigMap : v \in 1..Len(vols) }
             \cup UNION { { ctrs[c].EnvFrom[e].ConfigMapRef : e \in 1..Len(ctrs[c].EnvFrom) } :
                          c \in 1..Len(ctrs) }
        ELSE IF kind = "Secret"
        THEN { vols[v].Secret : v \in 1..Len(vols) }
             \cup UNION { { ctrs[c].EnvFrom[e].SecretRef : e \in 1..Len(ctrs[c].EnvFrom) } :
                          c \in 1..Len(ctrs) }
             \cup UNION { { ctrs[c].Env[e].SecretKeyRef : e \in 1..Len(ctrs[c].Env) } :
                          c \in 1..Len(ctrs) }
        ELSE { vols[v].PersistentVolumeClaim : v \in 1..Len(vols) }

\* the list of the snapshot that holds the resources of a related kind
RelatedList(kind) ==
    IF kind = "ConfigMap" THEN resources.ConfigMaps
    ELSE IF kind = "Secret" THEN resources.Secrets
    ELSE IF kind = "PersistentVolumeClaim" THEN resources.PVCs
    ELSE resources.Services

\* C3: in the finished tree, a ConfigMap (Secret, PVC) that the pod templates
\* of two or more resolved workloads refer to appears exactly once, under the
\* first of them in processing order
C3_SharedOnceUnderFirst ==
    pc = "built" =>
        \A kind \in {"ConfigMap", "Secret", "PersistentVolumeClaim"} :
            \A x \in 1..Len(RelatedList(kind)) :
                LET name == RelatedList(kind)[x].Name
                    users == { i \in 1..Len(root.Children) :
                                 /\ root.Children[i].Kind \in ResolvedKinds
                                 /\ name \in TemplateRefs(WorkloadOf(root.Children[i]), kind) }
                IN  Cardinality(users) >= 2 =>
                        /\ CountInTree(kind, name) = 1
                        /\ HasChild(root.Children[CHOOSE i \in users :
                                                      \A j \in users : i <= j],
                                    kind, name)

(***************************************************************************)
(* C4                                                                      *)
(***************************************************************************)
\* a sorts strictly before b by (kind, name)
KeyLess(a, b) ==
    \/ StrLess(a.Kind, b.Kind)
    \/ a.Kind = b.Kind /\ StrLess(a.Name, b.Name)

\* C4: in the tree BuildTree returns, the children of every node are in
\* ascending order of kind and, for equal kinds, of name
C4_ChildrenSorted ==
    pc = "built" =>
        \A p \in TreePaths :
            LET children == NodeAt(root, p).Children
            IN  \A c \in 1..(Len(children) - 1) : ~KeyLess(children[c + 1], children[c])

(***************************************************************************)
(* C5                                                                      *)
(***************************************************************************)
\* C5: a second successful run over the same namespace content writes the
\* same lines as the run before it
C5_SameOutput ==
    (pc = "exit" /\ exitCode = 0 /\ run > 1) => stdout = prevOut

(***************************************************************************)
(* C6                                                                      *)
(***************************************************************************)
\* the five workload lists of the namespace are all empty
NoWorkloads ==
    \A k \in {"Deployments", "StatefulSets", "DaemonSets", "Jobs", "CronJobs"} :
        cluster[k] = << >>

\* C6: when BuildTree has returned without error, it returned no root if the
\* Deployment, StatefulSet, DaemonSet, Job and CronJob lists are all empty
\* (whatever the other lists hold), and a tree rooted at Namespace/<namespace>
\* if one of the five is not empty
C6_NoResourcesSignal ==
    (pc \in {"built", "returned"} /\ err = "") =>
        IF NoWorkloads
        THEN root = NilResource
        ELSE root.Kind = "Namespace" /\ root.Name = Namespace

\* C6 witness: BuildTree returned neither a root nor an error for a namespace
\* that holds a Service and a Pod but no workload
C6_Witness ==
    /\ pc = "returned"
    /\ err = ""
    /\ root = NilResource
    /\ Len(resources.Services) > 0
    /\ Len(resources.Pods) > 0

(***************************************************************************)
(* C7                                                                      *)
(***************************************************************************)
\* the names of the items of a list that have an owner reference (kind, name)
OwnedNames(items, kind, name) ==
    { items[i].Name : i \in { j \in 1..Len(items) : HasOwnerRef(items[j], kind, name) } }

\* the children of node that have childKind are exactly the items owned by
\* the node, each once
ChildrenAreOwned(node, childKind, items) ==
    LET names == ChildNames(node, childKind, 1)
    IN  /\ { names[i] : i \in 1..Len(names) } = OwnedNames(items, node.Kind, node.Name)
        /\ Len(names) = Cardinality(OwnedNames(items, node.Kind, node.Name))

\* C7: in every tree, the ReplicaSet children of a Deployment node, the Pod
\* children of a ReplicaSet, StatefulSet, DaemonSet or Job node and the Job
\* children of a CronJob node are exactly the resources of the snapshot with
\* an owner reference to that node's kind and name
C7_OwnershipChain ==
    \A p \in TreePaths :
        LET node == NodeAt(root, p)
        IN  /\ node.Kind = "Deployment" =>
                   ChildrenAreOwned(node, "ReplicaSet", resources.ReplicaSets)
            /\ node.Kind \in {"ReplicaSet", "StatefulSet", "DaemonSet", "Job"} =>
                   ChildrenAreOwned(node, "Pod", resources.Pods)
            /\ node.Kind = "CronJob" =>
                   ChildrenAreOwned(node, "Job", resources.Jobs)

\* C7 witness: a finished tree with a Pod under a ReplicaSet under a Deployment
C7_Witness ==
    /\ pc = "built"
    /\ \E p \in TreePaths :
          /\ Len(p) = 3
          /\ NodeAt(root, p).Kind = "Pod"
          /\ NodeAt(root, SubSeq(p, 1, 2)).Kind = "ReplicaSet"
          /\ NodeAt(root, SubSeq(p, 1, 1)).Kind = "Deployment"

(***************************************************************************)
(* C8                                                                      *)
(***************************************************************************)
\* the (kind, name) pairs of a list of workloads, in list order
RootEntries(kind, items) == [i \in DOMAIN items |-> << kind, items[i].Name >>]

\* the Jobs with no owner reference or a first owner reference that is not a
\* CronJob, in list order
RECURSIVE StandaloneJobs(_, _)
StandaloneJobs(jobs, i) ==
    IF i > Len(jobs) THEN << >>
    ELSE (IF jobs[i].OwnerReferences = << >> \/ jobs[i].OwnerReferences[1].Kind # "CronJob"
          THEN << jobs[i] >> ELSE << >>)
         \o StandaloneJobs(jobs, i + 1)

\* the root children in the order the claim states
RootSequence ==
    RootEntries("Deployment", resources.Deployments)
    \o RootEntries("StatefulSet", resources.StatefulSets)
    \o RootEntries("DaemonSet", resources.DaemonSets)
    \o RootEntries("Job", StandaloneJobs(resources.Jobs, 1))
    \o RootEntries("CronJob", resources.CronJobs)

\* C8: at every moment of the build the children of the root are the first
\* entries of the sequence Deployments, StatefulSets, DaemonSets, standalone
\* Jobs, CronJobs (each in list order), all of it once BuildTree has returned;
\* and under a Deployment, StatefulSet, DaemonSet or standalone Job node no
\* related resource comes after a ReplicaSet or a Pod
C8_AppendOrder ==
    /\ Len(root.Children) <= Len(RootSequence)
    /\ \A i \in 1..Len(root.Children) :
           << root.Children[i].Kind, root.Children[i].Name >> = RootSequence[i]
    /\ pc = "built" => Len(root.Children) = Len(RootSequence)
    /\ \A i \in 1..Len(root.Children) :
           root.Children[i].Kind \in ResolvedKinds =>
               \A c, e \in 1..Len(root.Children[i].Children) :
                   (/\ root.Children[i].Children[c].Kind \in {"ReplicaSet", "Pod"}
                    /\ root.Children[i].Children[e].Kind \in RelatedKinds) => e < c

\* C8 witness: a finished tree in which a workload node has a related
\* resource directly followed by an owned ReplicaSet or Pod that a sort by
\* (kind, name) would move in front of it
C8_Witness ==
    /\ pc = "built"
    /\ \E i \in 1..Len(root.Children) :
          \E c \in 1..(Len(root.Children[i].Children) - 1) :
              /\ root.Children[i].Children[c].Kind \in RelatedKinds
              /\ root.Children[i].Children[c + 1].Kind \in {"ReplicaSet", "Pod"}
              /\ KeyLess(root.Children[i].Children[c + 1], root.Children[i].Children[c])

(***************************************************************************)
(* C9, C10                                                                 *)
(***************************************************************************)
\* q comes before p in depth-first pre-order: q is a proper prefix of p, or
\* q branches off to an earlier child where the two first differ
Precedes(q, p) ==
    /\ q # p
    /\ \/ Len(q) < Len(p) /\ q = SubSeq(p, 1, Len(q))
       \/ \E k \in 1..Len(q) :
              /\ k <= Len(p)
              /\ SubSeq(q, 1, k - 1) = SubSeq(p, 1, k - 1)
              /\ q[k] < p[k]

\* the number of the line of the node at p in a pre-order listing
LineNo(p) == 1 + Cardinality({ q \in TreePaths : Precedes(q, p) })

\* the node at p is the last child of its parent (the root counts as last)
IsLastAt(p) ==
    \/ p = << >>
    \/ p[Len(p)] = Len(NodeAt(root, SubSeq(p, 1, Len(p) - 1)).Children)

\* the prefix the claim states for the node at p: one segment for each of the
\* ancestors at depth 0 .. k - 1, from the root down
RECURSIVE ClaimedPrefix(_, _)
ClaimedPrefix(p, k) ==
    IF k = 0 THEN ""
    ELSE ClaimedPrefix(p, k - 1)
         \o (IF IsLastAt(SubSeq(p, 1, k - 1)) THEN "    " ELSE "|   ")

\* the line the claim states for the node at p
ClaimedLine(p) ==
    ClaimedPrefix(p, Len(p))
    \o (IF IsLastAt(p) THEN "'-- " ELSE "+-- ")
    \o NodeAt(root, p).Kind \o "/" \o NodeAt(root, p).Name

\* s without its ANSI sequences (escape byte up to and including "m")
RECURSIVE StripAnsi(_, _)
StripAnsi(s, inSequence) ==
    IF s = "" THEN ""
    ELSE IF inSequence THEN StripAnsi(Tail(s), Head(s) # "m")
    ELSE IF Head(s) = "^" THEN StripAnsi(Tail(s), TRUE)
    ELSE Head(s) \o StripAnsi(Tail(s), FALSE)

\* s ends with t
EndsWith(s, t) == Len(t) <= Len(s) /\ SubSeq(s, Len(s) - Len(t) + 1, Len(s)) = t

\* the program has printed the tree held in root
TreePrinted == pc = "exit" /\ exitCode = 0 /\ root # NilResource

\* C9 as stated: every printed line is exactly prefix + connector + kind/name
C9_LineAsStated ==
    TreePrinted => \A p \in TreePaths : stdout[LineNo(p)] = ClaimedLine(p)

\* C9 as amended: apart from the ANSI sequences around kind/name, every
\* printed line is prefix + connector + kind/name, the connector telling
\* whether the node is a last child and the prefix having four spaces for
\* each ancestor that is a last child and bar + three spaces for each that
\* is not
C9_LineModuloColor ==
    TreePrinted =>
        \A p \in TreePaths : StripAnsi(stdout[LineNo(p)], FALSE) = ClaimedLine(p)

\* C9 witness: a printed tree in which a node that is not a last child has a
\* child
C9_Witness ==
    /\ TreePrinted
    /\ \E p \in TreePaths : Len(p) >= 2 /\ ~IsLastAt(SubSeq(p, 1, Len(p) - 1))

\* C10: rendering writes one line per node, the line of the node at each
\* position being the one its pre-order number gives (after its ancestors
\* and after the whole subtrees of its earlier siblings); the first line is
\* the root's, with empty prefix and the last-child connector
C10_PreOrder ==
    TreePrinted =>
        /\ Len(stdout) = Cardinality(TreePaths)
        /\ \A p \in TreePaths :
               EndsWith(StripAnsi(stdout[LineNo(p)], FALSE),
                        " " \o NodeAt(root, p).Kind \o "/" \o NodeAt(root, p).Name)
        /\ StripAnsi(stdout[1], FALSE) = "'-- " \o root.Kind \o "/" \o root.Name

\* C10 witness: a printed tree whose root has two children, the first of them
\* with a child of its own
C10_Witness ==
    /\ TreePrinted
    /\ Len(root.Children) >= 2
    /\ Len(root.Children[1].Children) >= 1

(***************************************************************************)
(* C11                                                                     *)
(***************************************************************************)
\* the names the volumes of the pod template of w give for a related kind
VolumeRefs(w, kind) ==
    LET vols == w.PodSpec.Volumes
        all == IF kind = "ConfigMap" THEN { vols[v].ConfigMap : v \in 1..Len(vols) }
               ELSE IF kind = "Secret" THEN { vols[v].Secret : v \in 1..Len(vols) }
               ELSE { vols[v].PersistentVolumeClaim : v \in 1..Len(vols) }
    IN  all \ {NilRef}

\* the names of the resources of a related kind in the snapshot
NamesIn(kind) == { RelatedList(kind)[x].Name : x \in 1..Len(RelatedList(kind)) }

\* the names the containers of the pod template of w give for a Secret
EnvSecretRefs(w) == TemplateRefs(w, "Secret") \ ({NilRef} \cup VolumeRefs(w, "Secret"))

\* the names the other rules can attach under w: Secrets of the environment,
\* and for a StatefulSet the PVC of a volume claim template (ordinal 0) and
\* the PVCs that contain its name when a claim of a volume is missing
OtherRuleNames(w, wkind, kind) ==
    IF kind = "Secret" THEN EnvSecretRefs(w)
    ELSE IF kind = "PersistentVolumeClaim" /\ wkind = "StatefulSet"
    THEN { w.VolumeClaimTemplates[t] \o "-" \o w.Name \o "-0" :
               t \in 1..Len(w.VolumeClaimTemplates) }
         \cup (IF VolumeRefs(w, kind) \subseteq NamesIn(kind) THEN {}
               ELSE { n \in NamesIn(kind) : Contains(n, w.Name) })
    ELSE {}

\* C11: for every workload whose related resources are resolved and every
\* related kind, each volume reference of its pod template to a ConfigMap,
\* Secret or PVC that exists in the snapshot is a child of the workload node,
\* once; and a child of these kinds that no volume names comes from another
\* rule (environment, volume claim template, StatefulSet name heuristic)
C11_VolumeReferences ==
    \A i \in 1..Len(root.Children) :
        root.Children[i].Kind \in ResolvedKinds =>
            \A kind \in {"ConfigMap", "Secret", "PersistentVolumeClaim"} :
                LET node == root.Children[i]
                    w == WorkloadOf(node)
                    names == ChildNames(node, kind, 1)
                IN  /\ \A n \in VolumeRefs(w, kind) \cap NamesIn(kind) :
                           Cardinality({ c \in 1..Len(names) : names[c] = n }) = 1
                    /\ \A c \in 1..Len(names) :
                           names[c] \in VolumeRefs(w, kind) \cup OtherRuleNames(w, node.Kind, kind)

\* C11 witness: a workload node with a PVC child that a volume names, in a
\* namespace with another PVC, not named by any volume and not attached
C11_Witness ==
    \E i \in 1..Len(root.Children) :
        /\ root.Children[i].Kind \in ResolvedKinds
        /\ \E n \in VolumeRefs(WorkloadOf(root.Children[i]), "PersistentVolumeClaim") :
               HasChild(root.Children[i], "PersistentVolumeClaim", n)
        /\ \E m \in NamesIn("PersistentVolumeClaim") :
               /\ m \notin VolumeRefs(WorkloadOf(root.Children[i]), "PersistentVolumeClaim")
               /\ ~HasChild(root.Children[i], "PersistentVolumeClaim", m)

(***************************************************************************)
(* C12                                                                     *)
(***************************************************************************)
\* the names the containers of the pod template of w give for a ConfigMap
\* (envFrom) or for a Secret (envFrom and env)
EnvRefs(w, kind) ==
    LET ctrs == w.PodSpec.Containers
    IN  (IF kind = "ConfigMap"
         THEN UNION { { ctrs[c].EnvFrom[e].ConfigMapRef : e \in 1..Len(ctrs[c].EnvFrom) } :
                      c \in 1..Len(ctrs) }
         ELSE UNION { { ctrs[c].EnvFrom[e].SecretRef : e \in 1..Len(ctrs[c].EnvFrom) } :
                      c \in 1..Len(ctrs) }
              \cup UNION { { ctrs[c].Env[e].SecretKeyRef : e \in 1..Len(ctrs[c].Env) } :
                           c \in 1..Len(ctrs) })
        \ {NilRef}

\* C12: for every workload whose related resources are resolved, every
\* ConfigMap an envFrom entry of one of its containers names, and every
\* Secret an envFrom or env entry names, is a child of the workload node when
\* it exists in the snapshot
C12_EnvReferences ==
    \A i \in 1..Len(root.Children) :
        root.Children[i].Kind \in ResolvedKinds =>
            \A kind \in {"ConfigMap", "Secret"} :
                \A n \in EnvRefs(WorkloadOf(root.Children[i]), kind) \cap NamesIn(kind) :
                    HasChild(root.Children[i], kind, n)

(***************************************************************************)
(* C13                                                                     *)
(***************************************************************************)
\* the ordinals of the replicas after the first
HigherOrdinals == {"1", "2", "3", "4", "5", "6", "7", "8", "9"}

\* C13: under a StatefulSet node whose pod template has no PVC volume, for
\* every volume claim template T the PVC named T-<name>-0 is a child when it
\* exists in the snapshot, and no PVC named T-<name>-1 (or with a higher
\* ordinal) is a child
C13_FirstOrdinalOnly ==
    \A i \in 1..Len(root.Children) :
        LET node == root.Children[i]
            w == WorkloadOf(node)
        IN  (node.Kind = "StatefulSet" /\ VolumeRefs(w, "PersistentVolumeClaim") = {}) =>
                \A t \in 1..Len(w.VolumeClaimTemplates) :
                    LET base == w.VolumeClaimTemplates[t] \o "-" \o w.Name \o "-"
                    IN  /\ (base \o "0") \in NamesIn("PersistentVolumeClaim") =>
                               HasChild(node, "PersistentVolumeClaim", base \o "0")
                        /\ \A o \in HigherOrdinals :
                               ~HasChild(node, "PersistentVolumeClaim", base \o o)

\* C13 witness: a StatefulSet node with a volume claim template and the PVC
\* of ordinal 0 as a child, in a namespace that also holds the PVC of ordinal 1
C13_Witness ==
    \E i \in 1..Len(root.Children) :
        LET node == root.Children[i]
            w == WorkloadOf(node)
        IN  /\ node.Kind = "StatefulSet"
            /\ VolumeRefs(w, "PersistentVolumeClaim") = {}
            /\ \E t \in 1..Len(w.VolumeClaimTemplates) :
                   LET base == w.VolumeClaimTemplates[t] \o "-" \o w.Name \o "-"
                   IN  /\ HasChild(node, "PersistentVolumeClaim", base \o "0")
                       /\ (base \o "1") \in NamesIn("PersistentVolumeClaim")

(***************************************************************************)
(* C14                                                                     *)
(***************************************************************************)
\* the list of the snapshot that holds the resources of an owned kind
OwnedList(kind) ==
    IF kind = "ReplicaSet" THEN resources.ReplicaSets
    ELSE IF kind = "Pod" THEN resources.Pods
    ELSE resources.Jobs

\* C14: in the finished tree no ReplicaSet, Pod or Job of the snapshot is
\* the (kind, name) of more than one node
C14_OwnedAtOnePlace ==
    pc = "built" =>
        \A kind \in {"ReplicaSet", "Pod", "Job"} :
            \A x \in 1..Len(OwnedList(kind)) :
                CountInTree(kind, OwnedList(kind)[x].Name) <= 1

(***************************************************************************)
(* C15                                                                     *)
(***************************************************************************)
\* the selector of svc has pairs and each is a label of w with that value
SelectorSatisfied(svc, w) ==
    /\ ~svc.Selector.IsNil
    /\ DOMAIN svc.Selector.Map # {}
    /\ \A k \in DOMAIN svc.Selector.Map :
           k \in DOMAIN w.Labels /\ w.Labels[k] = svc.Selector.Map[k]

\* C15: in the finished tree a Service whose selector is satisfied by the
\* labels of two different workloads whose related resources are resolved is
\* a child of both of them
C15_ServiceUnderEach ==
    pc = "built" =>
        \A s \in 1..Len(resources.Services) :
            \A i, j \in 1..Len(root.Children) :
                (/\ i # j
                 /\ root.Children[i].Kind \in ResolvedKinds
                 /\ root.Children[j].Kind \in ResolvedKinds
                 /\ SelectorSatisfied(resources.Services[s], WorkloadOf(root.Children[i]))
                 /\ SelectorSatisfied(resources.Services[s], WorkloadOf(root.Children[j])))
                => /\ HasChild(root.Children[i], "Service", resources.Services[s].Name)
                   /\ HasChild(root.Children[j], "Service", resources.Services[s].Name)

\* C15 witness: a finished tree with the same Service under two workloads
C15_Witness ==
    /\ pc = "built"
    /\ \E s \in 1..Len(resources.Services) :
           \E i, j \in 1..Len(root.Children) :
               /\ i < j
               /\ SelectorSatisfied(resources.Services[s], WorkloadOf(root.Children[i]))
               /\ SelectorSatisfied(resources.Services[s], WorkloadOf(root.Children[j]))
               /\ HasChild(root.Children[i], "Service", resources.Services[s].Name)
               /\ HasChild(root.Children[j], "Service", resources.Services[s].Name)

(***************************************************************************)
(* C16                                                                     *)
(***************************************************************************)
\* C16: once a list fetch has failed, the list calls made are the lists up
\* to the failing one, each called once and none after it; no collection is
\* stored, no tree exists, the error names the failing list, and the program
\* has ended with exit code 1 (nothing is retried)
C16_FetchFailureAborts ==
    err # "" =>
        /\ Len(listCalls) \in 1..Len(Kinds)
        /\ listCalls = SubSeq(Kinds, 1, Len(listCalls))
        /\ err = "error fetching " \o ListNames[Len(listCalls)] \o ": " \o ListError
        /\ resources = NilResources
        /\ root = NilResource
        /\ pc = "exit"
        /\ exitCode = 1

\* C16 witness: the fetch of the StatefulSets failed in a namespace with a
\* Deployment, whose list had been fetched before
C16_Witness ==
    /\ err # ""
    /\ Len(listCalls) = 7
    /\ Len(cluster.Deployments) > 0

(***************************************************************************)
(* C17                                                                     *)
(***************************************************************************)
\* a reference as the claim reads it "if it were not there": nil when it
\* names no resource of the kind in the snapshot
Present(ref, kind) == IF ref \in NamesIn(kind) THEN ref ELSE NilRef

\* the workload w without its dangling references; keepClaims leaves the PVC
\* references of the volumes as they are
WithoutDangling(w, keepClaims) ==
    [w EXCEPT
       !.PodSpec.Volumes =
           [v \in DOMAIN @ |->
               [ConfigMap |-> Present(@[v].ConfigMap, "ConfigMap"),
                Secret |-> Present(@[v].Secret, "Secret"),
                PersistentVolumeClaim |->
                    IF keepClaims THEN @[v].PersistentVolumeClaim
                    ELSE Present(@[v].PersistentVolumeClaim, "PersistentVolumeClaim")]],
       !.PodSpec.Containers =
           [c \in DOMAIN @ |->
               [Name |-> @[c].Name,
                EnvFrom |-> [e \in DOMAIN @[c].EnvFrom |->
                                [ConfigMapRef |-> Present(@[c].EnvFrom[e].ConfigMapRef, "ConfigMap"),
                                 SecretRef |-> Present(@[c].EnvFrom[e].SecretRef, "Secret")]],
                Env |-> [e \in DOMAIN @[c].Env |->
                            [SecretKeyRef |-> Present(@[c].Env[e].SecretKeyRef, "Secret")]]]]]

\* the children of node that are related resources, in child order
RelatedChildren(node) == SelectSeq(node.Children, LAMBDA n : n.Kind \in RelatedKinds)

\* the related children the build can give a node for the workload w
PossibleRelated(node, w) ==
    { n.Children : n \in addRelatedResources(node.Kind, w, Node(node.Kind, node.Name, << >>),
                                             resources, found) }

\* C17 as stated: while and after the tree is built no error arises, and the related
\* children of every workload node are what the build gives for the workload
\* without its dangling references
C17_DanglingWithoutEffect ==
    root # NilResource =>
        /\ err = ""
        /\ \A i \in 1..Len(root.Children) :
               root.Children[i].Kind \in ResolvedKinds =>
                   RelatedChildren(root.Children[i]) \in
                       PossibleRelated(root.Children[i],
                                       WithoutDangling(WorkloadOf(root.Children[i]), FALSE))

\* C17 as amended: the same, except that the PVC volume references of a
\* StatefulSet are left in place (a missing claim makes the resolver attach
\* every PVC whose name contains the StatefulSet's name)
C17_DanglingExceptStatefulSetClaims ==
    root # NilResource =>
        /\ err = ""
        /\ \A i \in 1..Len(root.Children) :
               root.Children[i].Kind \in ResolvedKinds =>
                   RelatedChildren(root.Children[i]) \in
                       PossibleRelated(root.Children[i],
                                       WithoutDangling(WorkloadOf(root.Children[i]),
                                                       root.Children[i].Kind = "StatefulSet"))

\* C17 witness: a finished tree with a workload that has a dangling reference
\* and a related resource attached from another reference
C17_Witness ==
    /\ pc = "built"
    /\ \E i \in 1..Len(root.Children) :
           /\ root.Children[i].Kind \in ResolvedKinds
           /\ root.Children[i].Kind # "StatefulSet"
           /\ WithoutDangling(WorkloadOf(root.Children[i]), FALSE) # WorkloadOf(root.Children[i])
           /\ \E c \in 1..Len(root.Children[i].Children) :
                  root.Children[i].Children[c].Kind \in {"ConfigMap", "Secret", "PersistentVolumeClaim"}

(***************************************************************************)
(* C18                                                                     *)
(***************************************************************************)
\* C18: from the moment the collections are fetched, through the build and
\* the rendering, every collection the program holds equals what the
\* namespace returned: the same items in the same order with the same names,
\* labels, owner references and pod templates
C18_SnapshotUnchanged ==
    (err = "" /\ pc # "main") => resources = cluster

\* C18 witness: a tree with a Pod three levels down has been printed and
\* the collections are what was fetched
C18_Witness ==
    /\ pc = "exit"
    /\ exitCode = 0
    /\ \E p \in TreePaths : Len(p) = 3 /\ NodeAt(root, p).Kind = "Pod"
    /\ resources = cluster

(***************************************************************************)
(* C19                                                                     *)
(***************************************************************************)
\* the selector of svc has pairs and each is a label of the pod template of w
SelectsTemplate(svc, w) ==
    /\ ~svc.Selector.IsNil
    /\ DOMAIN svc.Selector.Map # {}
    /\ \A k \in DOMAIN svc.Selector.Map :
           k \in DOMAIN w.TemplateLabels /\ w.TemplateLabels[k] = svc.Selector.Map[k]

\* C19: under every Deployment node, each Service whose selector is satisfied
\* by the labels of the Deployment's pod template is a child, next to the
\* ReplicaSets the Deployment owns, whatever the labels of the Deployment's
\* own metadata are
C19_SelectorOnTemplateLabels ==
    \A i \in 1..Len(root.Children) :
        root.Children[i].Kind = "Deployment" =>
            /\ \A s \in 1..Len(resources.Services) :
                   SelectsTemplate(resources.Services[s], WorkloadOf(root.Children[i]))
                   => HasChild(root.Children[i], "Service", resources.Services[s].Name)
            /\ \A n \in OwnedNames(resources.ReplicaSets, "Deployment", root.Children[i].Name) :
                   HasChild(root.Children[i], "ReplicaSet", n)

(***************************************************************************)
(* C20                                                                     *)
(***************************************************************************)
\* C20: in a printed tree, the line of every node whose kind has no colour,
\* and of every node when colouring is off, is exactly prefix + connector +
\* kind/name, with no ANSI sequence in it
C20_PlainWhenUncolored ==
    TreePrinted =>
        \A p \in TreePaths :
            (~useColor \/ getResourceColor(TRUE, NodeAt(root, p).Kind) = "") =>
                stdout[LineNo(p)] = ClaimedLine(p)

(***************************************************************************)
(* C21                                                                     *)
(***************************************************************************)
\* svc carries the name of the workload w, or that name with "-headless"
NamedAfter(svc, w) == svc.Name = w.Name \/ svc.Name = w.Name \o "-headless"

\* C21: under a StatefulSet node every Service named after the StatefulSet
\* (its name, or its name with "-headless") is a child, whatever the selector
\* of the Service is and also when it has none; under a Deployment, DaemonSet
\* or Job node a Service is a child only through its selector
C21_NameFallback ==
    \A i \in 1..Len(root.Children) :
        LET node == root.Children[i]
            w == WorkloadOf(node)
        IN  /\ node.Kind = "StatefulSet" =>
                   \A s \in 1..Len(resources.Services) :
                       NamedAfter(resources.Services[s], w) =>
                           HasChild(node, "Service", resources.Services[s].Name)
            /\ node.Kind \in {"Deployment", "DaemonSet", "Job"} =>
                   \A s \in 1..Len(resources.Services) :
                       HasChild(node, "Service", resources.Services[s].Name) =>
                           /\ ~resources.Services[s].Selector.IsNil
                           /\ SelectorMatches(resources.Services[s].Selector.Map, w.Labels)

(***************************************************************************)
(* C22                                                                     *)
(***************************************************************************)
\* the selector of svc is absent or has no pairs
NoSelector(svc) == svc.Selector.IsNil \/ DOMAIN svc.Selector.Map = {}

\* C22: a Service whose selector is absent or has no pairs is not a child of
\* any Deployment, DaemonSet or Job node, whatever the labels of the workload
C22_NoSelectorNeverMatches ==
    \A i \in 1..Len(root.Children) :
        root.Children[i].Kind \in {"Deployment", "DaemonSet", "Job"} =>
            \A s \in 1..Len(resources.Services) :
                NoSelector(resources.Services[s]) =>
                    ~HasChild(root.Children[i], "Service", resources.Services[s].Name)

\* C22 witness: a Deployment, DaemonSet or Job node with a Service attached,
\* in a namespace with a Service that has no selector or an empty one
C22_Witness ==
    \E i \in 1..Len(root.Children) :
        /\ root.Children[i].Kind \in {"Deployment", "DaemonSet", "Job"}
        /\ \E c \in 1..Len(root.Children[i].Children) :
               root.Children[i].Children[c].Kind = "Service"
        /\ \E s \in 1..Len(resources.Services) : NoSelector(resources.Services[s])

(***************************************************************************)
(* C23                                                                     *)
(***************************************************************************)
\* C23: a Service is a child of a workload node through its selector only if
\* every pair (k, v) of the selector has k among the workload's labels with
\* value v; the only other way is the name rule of a StatefulSet
C23_PairNeedsKey ==
    \A i \in 1..Len(root.Children) :
        root.Children[i].Kind \in ResolvedKinds =>
            \A s \in 1..Len(resources.Services) :
                HasChild(root.Children[i], "Service", resources.Services[s].Name) =>
                    \/ SelectorSatisfied(resources.Services[s], WorkloadOf(root.Children[i]))
                    \/ /\ root.Children[i].Kind = "StatefulSet"
                       /\ NamedAfter(resources.Services[s], WorkloadOf(root.Children[i]))

(***************************************************************************)
(* C24                                                                     *)
(***************************************************************************)
\* C24: in the finished tree a Job of the snapshot is a child of the root if
\* and only if it has no owner reference or its first owner reference is not
\* of kind CronJob, whatever its other owner references are and whether or
\* not the CronJob exists
C24_StandaloneByFirstReference ==
    pc = "built" =>
        \A j \in 1..Len(resources.Jobs) :
            HasChild(root, "Job", resources.Jobs[j].Name)
            <=> \/ Len(resources.Jobs[j].OwnerReferences) = 0
                \/ resources.Jobs[j].OwnerReferences[1].Kind # "CronJob"

\* C24 witness: a finished tree of a namespace without CronJobs, with a root
\* Job whose second owner reference is a CronJob, and with a Job whose first
\* owner reference is a CronJob and which is not a child of the root
C24_Witness ==
    /\ pc = "built"
    /\ resources.CronJobs = << >>
    /\ \E j \in 1..Len(resources.Jobs) :
           /\ Len(resources.Jobs[j].OwnerReferences) >= 2
           /\ resources.Jobs[j].OwnerReferences[2].Kind = "CronJob"
           /\ HasChild(root, "Job", resources.Jobs[j].Name)
    /\ \E j \in 1..Len(resources.Jobs) :
           /\ Len(resources.Jobs[j].OwnerReferences) >= 1
           /\ resources.Jobs[j].OwnerReferences[1].Kind = "CronJob"
           /\ ~HasChild(root, "Job", resources.Jobs[j].Name)

(***************************************************************************)
(* C25                                                                     *)
(***************************************************************************)
\* every child of node has this kind
ChildrenAllOfKind(node, kind) ==
    \A c \in 1..Len(node.Children) : node.Children[c].Kind = kind

\* C25: in every tree the children of a CronJob node are Job nodes only, and
\* the children of a Job node under a CronJob are Pod nodes only, whatever
\* the pod templates of the CronJob and of the Job refer to
C25_NoRelatedUnderCronJob ==
    \A p \in TreePaths :
        /\ NodeAt(root, p).Kind = "CronJob" => ChildrenAllOfKind(NodeAt(root, p), "Job")
        /\ (Len(p) >= 1 /\ NodeAt(root, SubSeq(p, 1, Len(p) - 1)).Kind = "CronJob") =>
               ChildrenAllOfKind(NodeAt(root, p), "Pod")

\* C25 witness: a CronJob node with a Job child whose pod template has a
\* volume naming a ConfigMap of the snapshot
C25_Witness ==
    \E i \in 1..Len(root.Children) :
        /\ root.Children[i].Kind = "CronJob"
        /\ \E c \in 1..Len(root.Children[i].Children) :
               \E j \in 1..Len(resources.Jobs) :
                   /\ resources.Jobs[j].Name = root.Children[i].Children[c].Name
                   /\ VolumeRefs(resources.Jobs[j], "ConfigMap") \cap NamesIn("ConfigMap") # {}

(***************************************************************************)
(* C26                                                                     *)
(***************************************************************************)
\* the PVCs of the snapshot whose name contains the name of w
ContainingName(w) == { n \in NamesIn("PersistentVolumeClaim") : Contains(n, w.Name) }

\* the names of the PVC children of node
ClaimChildren(node) ==
    { node.Children[c].Name :
        c \in { d \in 1..Len(node.Children) : node.Children[d].Kind = "PersistentVolumeClaim" } }

\* a volume of the pod template of w claims a PVC the snapshot does not have
HasMissingClaim(w) == ~(VolumeRefs(w, "PersistentVolumeClaim") \subseteq NamesIn("PersistentVolumeClaim"))

\* C26 as stated: under a StatefulSet node every PVC whose name contains the
\* StatefulSet's name is a child; under a Deployment, DaemonSet or Job node
\* the PVC children are those its volumes name
C26_SubstringAlways ==
    \A i \in 1..Len(root.Children) :
        LET node == root.Children[i]
            w == WorkloadOf(node)
        IN  /\ node.Kind = "StatefulSet" => ContainingName(w) \subseteq ClaimChildren(node)
            /\ node.Kind \in {"Deployment", "DaemonSet", "Job"} =>
                   ClaimChildren(node) \subseteq VolumeRefs(w, "PersistentVolumeClaim")

\* C26 as amended: under a StatefulSet node with a volume that claims a PVC
\* missing from the snapshot, every PVC whose name contains the StatefulSet's
\* name is a child; under a StatefulSet node without such a volume the PVC
\* children are those its volumes and volume claim templates (ordinal 0)
\* name; under a Deployment, DaemonSet or Job node those its volumes name
C26_SubstringOnMissingClaim ==
    \A i \in 1..Len(root.Children) :
        LET node == root.Children[i]
            w == WorkloadOf(node)
        IN  /\ (node.Kind = "StatefulSet" /\ HasMissingClaim(w)) =>
                   ContainingName(w) \subseteq ClaimChildren(node)
            /\ (node.Kind = "StatefulSet" /\ ~HasMissingClaim(w)) =>
                   ClaimChildren(node) \subseteq
                       VolumeRefs(w, "PersistentVolumeClaim")
                       \cup { w.VolumeClaimTemplates[t] \o "-" \o w.Name \o "-0" :
                                  t \in 1..Len(w.VolumeClaimTemplates) }
            /\ node.Kind \in {"Deployment", "DaemonSet", "Job"} =>
                   ClaimChildren(node) \subseteq VolumeRefs(w, "PersistentVolumeClaim")

\* C26 witness: a StatefulSet node whose volume claims a missing PVC and
\* which has as a child a PVC that no volume names but whose name contains
\* the StatefulSet's name
C26_Witness ==
    \E i \in 1..Len(root.Children) :
        LET node == root.Children[i]
            w == WorkloadOf(node)
        IN  /\ node.Kind = "StatefulSet"
            /\ HasMissingClaim(w)
            /\ \E n \in ClaimChildren(node) :
                   n \notin VolumeRefs(w, "PersistentVolumeClaim") /\ Contains(n, w.Name)

(***************************************************************************)
(* C27                                                                     *)
(***************************************************************************)
\* the list of the snapshot that holds the resources of a node kind
SnapshotList(kind) ==
    IF kind \in RelatedKinds THEN RelatedList(kind)
    ELSE IF kind \in {"ReplicaSet", "Pod"} THEN OwnedList(kind)
    ELSE ListOfKind(kind)

\* the resource of the snapshot with this name in a list
Named1(items, name) == items[CHOOSE x \in 1..Len(items) : items[x].Name = name]

\* a processed workload selects or references the related resource: by
\* selector or StatefulSet name rule (Service), by a volume or environment
\* reference (ConfigMap, Secret), by a volume, a volume claim template or
\* the StatefulSet name heuristic (PVC)
ReachedFrom(node, kind, name) ==
    LET w == WorkloadOf(node)
    IN  /\ node.Kind \in ResolvedKinds
        /\ IF kind = "Service"
           THEN \/ SelectorSatisfied(Named1(resources.Services, name), w)
                \/ node.Kind = "StatefulSet" /\ NamedAfter(Named1(resources.Services, name), w)
           ELSE IF kind \in {"ConfigMap", "Secret"}
           THEN name \in TemplateRefs(w, kind)
           ELSE \/ name \in VolumeRefs(w, kind)
                \/ /\ node.Kind = "StatefulSet"
                   /\ \/ Contains(name, w.Name)
                      \/ \E t \in 1..Len(w.VolumeClaimTemplates) :
                             name = w.VolumeClaimTemplates[t] \o "-" \o w.Name \o "-0"

\* C27: every node other than the root and the Container nodes stands for a
\* resource of the snapshot with its kind and name; a Service, ConfigMap,
\* Secret or PVC node stands for a resource that a processed workload selects
\* or references, a ReplicaSet node for one a Deployment of the snapshot
\* owns, a Pod node for a Pod its parent owns; and a Job whose first owner
\* reference is a CronJob and none of whose CronJobs is in the snapshot has
\* no node
C27_OnlyReachedShown ==
    /\ \A p \in TreePaths \ { << >> } :
           LET node == NodeAt(root, p)
               parent == NodeAt(root, SubSeq(p, 1, Len(p) - 1))
           IN  node.Kind # "Container" =>
                   /\ \E x \in 1..Len(SnapshotList(node.Kind)) :
                          SnapshotList(node.Kind)[x].Name = node.Name
                   /\ node.Kind \in RelatedKinds =>
                          \E i \in 1..Len(root.Children) :
                              ReachedFrom(root.Children[i], node.Kind, node.Name)
                   /\ node.Kind = "ReplicaSet" =>
                          \E d \in 1..Len(resources.Deployments) :
                              HasOwnerRef(Named1(resources.ReplicaSets, node.Name),
                                          "Deployment", resources.Deployments[d].Name)
                   /\ node.Kind = "Pod" =>
                          HasOwnerRef(Named1(resources.Pods, node.Name), parent.Kind, parent.Name)
    /\ \A j \in 1..Len(resources.Jobs) :
           LET refs == resources.Jobs[j].OwnerReferences
           IN  (/\ Len(refs) > 0
                /\ refs[1].Kind = "CronJob"
                /\ \A k \in 1..Len(refs) :
                       refs[k].Kind = "CronJob" =>
                           \A c \in 1..Len(resources.CronJobs) :
                               resources.CronJobs[c].Name # refs[k].Name)
               => CountInTree("Job", resources.Jobs[j].Name) = 0

(***************************************************************************)
(* C28                                                                     *)
(***************************************************************************)
\* the number of references the pod template of w makes to the Secret name:
\* volumes, envFrom entries and env entries
SecretReferenceCount(w, name) ==
    LET vols == w.PodSpec.Volumes
        ctrs == w.PodSpec.Containers
    IN  Cardinality({ v \in 1..Len(vols) : vols[v].Secret = name })
        + Cardinality({ ce \in UNION { {c} \X (1..Len(ctrs[c].EnvFrom)) : c \in 1..Len(ctrs) } :
                          ctrs[ce[1]].EnvFrom[ce[2]].SecretRef = name })
        + Cardinality({ ce \in UNION { {c} \X (1..Len(ctrs[c].Env)) : c \in 1..Len(ctrs) } :
                          ctrs[ce[1]].Env[ce[2]].SecretKeyRef = name })

C29_ContainersUnderPods ==
    \A p \in TreePaths :
        LET node == NodeAt(root, p)
        IN  IF node.Kind = "Pod"
            THEN LET containers == Named1(resources.Pods, node.Name).Containers
                 IN  node.Children =
                         [c \in 1..Len(containers) |-> Node("Container", containers[c], << >>)]
            ELSE \A c \in 1..Len(node.Children) : node.Children[c].Kind # "Container"

\* C29 witness: a Pod node under a ReplicaSet with two Container children
C29_Witness ==
    \E p \in TreePaths :
        /\ Len(p) = 3
        /\ NodeAt(root, p).Kind = "Pod"
        /\ NodeAt(root, SubSeq(p, 1, 2)).Kind = "ReplicaSet"
        /\ Len(NodeAt(root, p).Children) = 2


(***************************************************************************)
(* package tree, Resource.SortChildren.  No code of the program calls it;  *)
(* SpecSort applies it, twice in a row, to the trees a client can build    *)
(* with NewResource and AddChild.                                          *)
(***************************************************************************)
\* the most children a node of a tree handed to SortChildren has
MaxSortWidth == 2

\* the calls of SortChildren a client makes on one tree
SortCalls == 2

\* the sequences over S of length n at most
SeqsUpTo(S, n) == UNION { [1..k -> S] : k \in 0..n }

\* the (kind, name) pairs of the inner nodes: the kind decides before the name
SortKeys == { <<"Job", "b">>, <<"Pod", "a">> }

SortLeaves == { Node("Container", "1", << >>), Node("Container", "2", << >>) }

\* the trees built by NewResource and AddChild: siblings in any order, two
\* siblings may have the same kind and name and different children
SortInputs ==
    LET inner == { Node(k[1], k[2], ls) :
                       k \in SortKeys, ls \in SeqsUpTo(SortLeaves, MaxSortWidth) }
    IN { Node("Namespace", "demo", cs) : cs \in SeqsUpTo(inner, MaxSortWidth) }

\* the less function SortChildren passes to sort.Slice
SortLess(a, b) ==
    IF a.Kind # b.Kind THEN StrLess(a.Kind, b.Kind) ELSE StrLess(a.Name, b.Name)

\* sort.Slice(r.Children, less): the list is rearranged so that no element is
\* less than an element before it; sort.Slice is not a stable sort, the order
\* it gives elements that compare equal is not specified
SortSlice(children) ==
    { [i \in 1..Len(children) |-> children[p[i]]] :
        p \in { q \in Orderings(1..Len(children)) :
                  \A i \in 1..(Len(children) - 1) :
                      ~SortLess(children[q[i + 1]], children[q[i]]) } }

\* the loop over r.Children: child.SortChildren() on each child in turn
RECURSIVE SortChildren(_)
RECURSIVE SortEachChild(_)
SortEachChild(children) ==
    IF children = << >> THEN { << >> }
    ELSE { << c >> \o rest : c \in SortChildren(Head(children)),
                             rest \in SortEachChild(Tail(children)) }

\* r.SortChildren(): the trees r can be afterwards
SortChildren(r) ==
    IF r.Children = << >> THEN { r }
    ELSE UNION { { Node(r.Kind, r.Name, cs) : cs \in SortEachChild(sorted) } :
                 sorted \in SortSlice(r.Children) }

InitSort ==
    /\ sortLog \in { << t >> : t \in SortInputs }
    /\ cluster = NilResources
    /\ useColor = FALSE
    /\ resources = NilResources
    /\ listCalls = << >>
    /\ root = NilResource
    /\ found = {}
    /\ pc = "sort"
    /\ idx = 0
    /\ err = ""
    /\ stdout = << >>
    /\ exitCode = -1
    /\ run = 1
    /\ prevOut = << >>
    /\ lookup = NoLookup

\* a client calls SortChildren on the tree it holds
CallSortChildren ==
    /\ pc = "sort"
    /\ Len(sortLog) <= SortCalls
    /\ \E t \in SortChildren(sortLog[Len(sortLog)]) : sortLog' = Append(sortLog, t)
    /\ UNCHANGED << cluster, resources, listCalls, root, found, pc, idx, err, stdout,
                    exitCode, useColor, run, prevOut, lookup >>

NextSort == CallSortChildren

SpecSort == InitSort /\ [][NextSort]_vars

\* b has the nodes of a, each under the same parent: the children of b are
\* the children of a in some order, each with its own subtree
RECURSIVE SameNodes(_, _)
SameNodes(a, b) ==
    /\ a.Kind = b.Kind
    /\ a.Name = b.Name
    /\ Len(a.Children) = Len(b.Children)
    /\ \E p \in Orderings(1..Len(a.Children)) :
          \A i \in 1..Len(a.Children) : SameNodes(a.Children[p[i]], b.Children[i])

\* every children list of t is in ascending order of kind, then name
RECURSIVE SortedAtEveryDepth(_)
SortedAtEveryDepth(t) ==
    /\ \A i \in 1..(Len(t.Children) - 1) : ~KeyLess(t.Children[i + 1], t.Children[i])
    /\ \A i \in 1..Len(t.Children) : SortedAtEveryDepth(t.Children[i])

\* after a call of SortChildren the tree has the nodes it had, under the
\* same parents, and is sorted at every depth
C30_SortedSameNodes ==
    \A k \in 2..Len(sortLog) :
        SameNodes(sortLog[1], sortLog[k]) /\ SortedAtEveryDepth(sortLog[k])

RECURSIVE DistinctSiblings(_)
DistinctSiblings(t) ==
    /\ \A i, j \in 1..Len(t.Children) :
          i # j => KeyLess(t.Children[i], t.Children[j]) \/ KeyLess(t.Children[j], t.Children[i])
    /\ \A i \in 1..Len(t.Children) : DistinctSiblings(t.Children[i])

C30_IdempotentOnDistinctSiblings ==
    (Len(sortLog) >= 3 /\ DistinctSiblings(sortLog[1])) => sortLog[3] = sortLog[2]

====
